---- MODULE Spec2Model ----
(***************************************************************************)
(* Job Stash: a date scheduler that keeps its jobs in a MongoDB collection *)
(* and arms one setTimeout per job in each process.                        *)
(*                                                                         *)
(* The model follows the current Scheduler and Job classes                 *)
(* (src/unnamed/part_000).  The store is one collection shared by all      *)
(* processes; every store call is atomic and is one step together with     *)
(* the code that runs when its await resumes.  Time is not measured: a     *)
(* live timer may fire at any later step, which is what unbounded timer    *)
(* lateness and unbounded I/O latency allow.  The delay handed to          *)
(* Job.scheduleJob is kept as the number of times it still exceeds         *)
(* MAX_TIME (field chain of a timer).                                      *)
(* A process has at most one API call waiting for the store at a time,     *)
(* beside its init call and its running callbacks.                         *)
(***************************************************************************)
EXTENDS Integers, FiniteSets, Sequences, TLC

\* ------------------------------------------------------------------ bounds
Procs == {"p1", "p2"}
JobIds == {"a", "b"}
Dates == {1, 2}
MetaVals == {"x", "y"}
Errors == {"E1"}
\* live timers plus running wrapped callbacks one process may hold
MaxLive == 2
\* API calls one process makes in one behaviour (init is not counted)
MaxCalls == 3
\* API calls of a process in the specifications that draw from many operations
FewCalls == 2
\* process crashes in one behaviour
MaxCrashes == 1
\* bounded waits chained before the last one
MaxChain == 1
\* largest retryCount handed to init
MaxRetryCount == 1

\* ------------------------------------------------------- program constants
MAX_TIME == 2147483647
DefaultRetryWindowInSeconds == 3600
DefaultRetryCount == 3
DefaultOptions ==
  [retryWindowInSeconds |-> DefaultRetryWindowInSeconds,
   retryCount |-> DefaultRetryCount,
   useLock |-> FALSE]

ErrNotInitialised == "Scheduler not Initialised"
ErrNotAFunction == "callback is not a function"
ErrDuplicate == "JobId must be unique"
ErrNoUri == "Mongo URI not provided"
ErrTypeError == "TypeError: Cannot read properties of undefined"
Ok == "ok"

\* the value of a missing key of scheduledJobs, and the value Job's timer
\* callback stores after it has run the wrapped callback
Undefined == 0
\* a missing argument or a missing field of a document
Absent == <<>>
NoMeta == "none"
\* an object without keys
EmptyMap == [i \in {} |-> Undefined]
Idle == [op |-> "idle"]
\* the record of a step: the action, the process, the job id, the outcome
Ev(a, p, id, res) == [a |-> a, p |-> p, id |-> id, res |-> res]

VARIABLES
  db,             \* the jobs collection: jobId -> document
  initialized,    \* Scheduler.initialized, per process
  collection,     \* whether Scheduler.jobsCollection is assigned
  options,        \* Scheduler.options
  scheduledJobs,  \* Scheduler.scheduledJobs: jobId -> timer handle
  retriedCount,   \* Scheduler.retriedCount: jobId -> number
  timers,         \* the process's armed timeouts
  runs,           \* wrapped callbacks that have started and not yet ended
  api,            \* the API call of the process that waits for the store
  initTask,       \* the init call of the process that waits for the store
  invoked,        \* history: how often the user callback was called, per id
  succeeded,      \* history: the user callback of the id's record has resolved
  cancelled,      \* history: ids whose cancelJob returned, not scheduled since
  ev,             \* history: the step just taken
  calls,          \* history: API calls made, per process
  crashes         \* history: crashes

vars == <<db, initialized, collection, options, scheduledJobs, retriedCount,
          timers, runs, api, initTask, invoked, succeeded, cancelled, ev,
          calls, crashes>>

\* ----------------------------------------------------------------- helpers
IfNull(x, dflt) == IF x = Absent THEN dflt ELSE x[1]

SetEntry(f, k, v) == [i \in DOMAIN f \cup {k} |-> IF i = k THEN v ELSE f[i]]

DelEntry(f, k) == [i \in DOMAIN f \ {k} |-> f[i]]

Lookup(jobs, id) == IF id \in DOMAIN jobs THEN jobs[id] ELSE Undefined

\* clearTimeout: a handle that is not armed (undefined, fired) clears nothing
ClearTimeout(tms, h) == {t \in tms : t.h # h}

\* setTimeout returns a handle no armed timer and no running callback has
FreshHandle(tms, rns) ==
  LET used == {t.h : t \in tms} \cup {r.h : r \in rns}
  IN CHOOSE n \in 1..(Cardinality(used) + 1) :
       n \notin used /\ \A m \in 1..(n - 1) : m \in used

\* how often a delay in ms exceeds MAX_TIME along Job.scheduleJob's recursion
RECURSIVE Segments(_)
Segments(ms) == IF ms > MAX_TIME THEN 1 + Segments(ms - MAX_TIME) ELSE 0

\* ------------------------------------------------------------------- store
ActiveJobs(d) == {id \in DOMAIN d : d[id].isActive}

NewDocument(date, meta) ==
  [dateToRunOn |-> date, meta |-> meta, isLocked |-> FALSE, isActive |-> TRUE,
   retriedCount |-> Absent, errorCount |-> Absent, errorMessages |-> <<>>]

\* $set of {...metadata}: the keys given replace the stored ones
MergeMeta(old, meta) == IF meta = NoMeta THEN old ELSE meta

\* variant: a filter on the job id and isActive alone
LockFilterAnyDate(d, id, date) == id \in DOMAIN d /\ d[id].isActive

\* the filter of acquireLock
LockFilter(d, id, date) ==
  id \in DOMAIN d /\ d[id].isActive /\ d[id].dateToRunOn = date

\* variant: a $set is reported as a modification even when it changes nothing
LockModifiedAlways(d, id, date) == LockFilter(d, id, date)

\* updateOne reports a document as modified only when $set changed it
LockModified(d, id, date) == LockFilter(d, id, date) /\ ~d[id].isLocked

\* variant: the $set of acquireLock applied to the record whatever its state
AcquireLockStoreUnfiltered(d, id, date) ==
  IF id \in DOMAIN d THEN [d EXCEPT ![id].isLocked = TRUE] ELSE d

\* what acquireLock's updateOne does to the store
AcquireLockStore(d, id, date) ==
  IF LockFilter(d, id, date) THEN [d EXCEPT ![id].isLocked = TRUE] ELSE d

\* variant: acquireLock returning matchedCount alone
AcquireLockMatched(d, id, date) == LockFilter(d, id, date)

AcquireLockResult(d, id, date) ==
  LockFilter(d, id, date) /\ LockModified(d, id, date)

\* variant: retriedCount counted from 0 when absent
RetryStage1FromZero(doc, error) ==
  [doc EXCEPT !.errorCount = <<IfNull(doc.errorCount, 0) + 1>>,
              !.retriedCount = <<IfNull(doc.retriedCount, 0) + 1>>,
              !.isLocked = FALSE,
              !.errorMessages = Append(doc.errorMessages, error)]

\* variant: the error is put in front of errorMessages
RetryStage1Prepend(doc, error) ==
  [doc EXCEPT !.errorCount = <<IfNull(doc.errorCount, 0) + 1>>,
              !.retriedCount = <<IfNull(doc.retriedCount, -1) + 1>>,
              !.isLocked = FALSE,
              !.errorMessages = <<error>> \o doc.errorMessages]

\* first stage of updateRetryThresholdInDB's pipeline
RetryStage1(doc, error) ==
  [doc EXCEPT !.errorCount = <<IfNull(doc.errorCount, 0) + 1>>,
              !.retriedCount = <<IfNull(doc.retriedCount, -1) + 1>>,
              !.isLocked = FALSE,
              !.errorMessages = Append(doc.errorMessages, error)]

\* second stage: it reads the retriedCount the first stage wrote
RetryStage2(doc, retryCount) ==
  [doc EXCEPT !.isActive =
     IF IfNull(doc.retriedCount, -1) >= retryCount THEN FALSE ELSE doc.isActive]

\* variant: isActive is decided on the retriedCount read before the increment
UpdateRetryThresholdStale(d, id, error, retryCount) ==
  IF id \in DOMAIN d
  THEN [d EXCEPT ![id] = RetryStage1(RetryStage2(d[id], retryCount), error)]
  ELSE d

\* updateOne with the two-stage pipeline: one update of one document
UpdateRetryThresholdInDB(d, id, error, retryCount) ==
  IF id \in DOMAIN d
  THEN [d EXCEPT ![id] = RetryStage2(RetryStage1(d[id], error), retryCount)]
  ELSE d

\* variant: a collection without the unique index on jobId
DuplicateKeyNever(d, id) == FALSE

\* insertOne fails with code 11000 on the unique index createIndexes made
DuplicateKey(d, id) == id \in DOMAIN d

InsertDocument(d, id, date, meta) ==
  [i \in DOMAIN d \cup {id} |-> IF i = id THEN NewDocument(date, meta) ELSE d[i]]

UpsertDocument(d, id, date, meta) ==
  IF id \in DOMAIN d
  THEN [d EXCEPT ![id].dateToRunOn = date, ![id].meta = MergeMeta(d[id].meta, meta)]
  ELSE InsertDocument(d, id, date, MergeMeta(NoMeta, meta))

\* ------------------------------------------------- one process's memory
\* m = [timers, jobs]: the armed timeouts and Scheduler.scheduledJobs

\* variant: wrapCallback always returns prepareCallback
WrapCallbackNoLock(opts, date, meta) == [d |-> date, meta |-> meta, lock |-> FALSE]

\* Scheduler.wrapCallback: the wrapper is chosen when the timer is armed
WrapCallback(opts, date, meta) == [d |-> date, meta |-> meta, lock |-> opts.useLock]

\* history: which call armed the timer
Tag(cb, src) == [d |-> cb.d, meta |-> cb.meta, lock |-> cb.lock, src |-> src]

\* Job.scheduleJob: arm one timeout and store its handle under the job id
JobScheduleJob(m, rns, id, cb, k) ==
  LET h == FreshHandle(m.timers, rns)
  IN [timers |-> m.timers \cup
                   {[h |-> h, jobId |-> id, d |-> cb.d, meta |-> cb.meta,
                     lock |-> cb.lock, src |-> cb.src, chain |-> k]},
      jobs |-> SetEntry(m.jobs, id, h)]

\* Scheduler.cancelJobFromMemory
CancelJobFromMemory(m, id) ==
  IF Lookup(m.jobs, id) # Undefined
  THEN [timers |-> ClearTimeout(m.timers, m.jobs[id]), jobs |-> DelEntry(m.jobs, id)]
  ELSE m

\* variant: clearTimeout without the delete, as Job.cancelJob does
ClearOnly(m, id) ==
  [timers |-> ClearTimeout(m.timers, Lookup(m.jobs, id)), jobs |-> m.jobs]

\* the first lines of updateJob and of cancelJob: clearTimeout, then delete
ClearAndDelete(m, id) ==
  [timers |-> ClearTimeout(m.timers, Lookup(m.jobs, id)), jobs |-> DelEntry(m.jobs, id)]

\* Scheduler.checkIfRetryExceeded: the counter after the call
BumpRetried(rc, id) == SetEntry(rc, id, (IF id \in DOMAIN rc THEN rc[id] ELSE 0) + 1)

\* variant: the comparison of checkIfRetryExceeded made with >=
RetryExceededAtLimit(rc, id, retryCount) == BumpRetried(rc, id)[id] >= retryCount

RetryExceeded(rc, id, retryCount) == BumpRetried(rc, id)[id] > retryCount

\* this.retriedCount[jobId] && delete this.retriedCount[jobId]
ForgetRetried(rc, id) ==
  IF id \in DOMAIN rc /\ rc[id] # 0 THEN DelEntry(rc, id) ELSE rc

cfgVars == <<initialized, collection, options>>
memVars == <<scheduledJobs, timers>>
histVars == <<invoked, succeeded, cancelled>>

Mem(p) == [timers |-> timers[p], jobs |-> scheduledJobs[p]]

Live(p) == Cardinality(timers[p]) + Cardinality(runs[p])

\* the process has made fewer than FewCalls API calls
Few(p) == calls[p] < FewCalls

\* Scheduler.init's merge of the options over the current ones
MergeOptions(cur, o) ==
  [retryWindowInSeconds |->
     IF o.retryWindowInSeconds # Absent THEN o.retryWindowInSeconds[1]
     ELSE cur.retryWindowInSeconds,
   retryCount |-> IF o.retryCount # Absent THEN o.retryCount[1] ELSE cur.retryCount,
   useLock |-> IF o.useLock # Absent /\ o.useLock[1] THEN TRUE ELSE cur.useLock]

\* ------------------------------------------------------------------ Init
Init ==
  /\ db = EmptyMap
  /\ initialized = [p \in Procs |-> FALSE]
  /\ collection = [p \in Procs |-> FALSE]
  /\ options = [p \in Procs |-> DefaultOptions]
  /\ scheduledJobs = [p \in Procs |-> EmptyMap]
  /\ retriedCount = [p \in Procs |-> EmptyMap]
  /\ timers = [p \in Procs |-> {}]
  /\ runs = [p \in Procs |-> {}]
  /\ api = [p \in Procs |-> Idle]
  /\ initTask = [p \in Procs |-> Idle]
  /\ invoked = [id \in JobIds |-> 0]
  /\ succeeded = [id \in JobIds |-> FALSE]
  /\ cancelled = [p \in Procs |-> {}]
  /\ ev = Ev("start", "", "", "")
  /\ calls = [p \in Procs |-> 0]
  /\ crashes = 0


\* ------------------------------------------------------------ Scheduler.init
\* init: initDB assigns the collection (at once for a Db handle, after
\* client.connect() for an address) and waits for createIndexes
InitCall(p, cfg, o) ==
  /\ initTask[p] = Idle
  /\ IF cfg = "noaddress"
     THEN /\ ev' = Ev("init", p, "", ErrNoUri)
          /\ UNCHANGED <<collection, initTask>>
     ELSE /\ collection' = [collection EXCEPT ![p] = @ \/ cfg = "mongo"]
          /\ initTask' = [initTask EXCEPT ![p] =
               [op |-> "init", stage |-> IF cfg = "mongo" THEN "indexes" ELSE "connect",
                o |-> o]]
          /\ ev' = Ev("init", p, "", "pending")
  /\ UNCHANGED <<db, initialized, options, memVars, retriedCount, runs, api,
                 histVars, calls, crashes>>

\* client.connect() has resolved: the collection is assigned
InitConnected(p) ==
  /\ initTask[p] # Idle
  /\ initTask[p].stage = "connect"
  /\ collection' = [collection EXCEPT ![p] = TRUE]
  /\ initTask' = [initTask EXCEPT ![p].stage = "indexes"]
  /\ ev' = Ev("connect", p, "", Ok)
  /\ UNCHANGED <<db, initialized, options, memVars, retriedCount, runs, api,
                 histVars, calls, crashes>>

\* createIndexes has resolved: the options are merged, initialized is set
InitDone(p) ==
  /\ initTask[p] # Idle
  /\ initTask[p].stage = "indexes"
  /\ options' = [options EXCEPT ![p] = MergeOptions(@, initTask[p].o)]
  /\ initialized' = [initialized EXCEPT ![p] = TRUE]
  /\ initTask' = [initTask EXCEPT ![p] = Idle]
  /\ ev' = Ev("createIndexes", p, "", Ok)
  /\ UNCHANGED <<db, collection, memVars, retriedCount, runs, api, histVars,
                 calls, crashes>>

\* ------------------------------------------------------ Scheduler.scheduleJob
\* scheduleJob up to its await of storeJobInDB
ScheduleJobCall(p, cbIsFn, date, id, meta, k) ==
  /\ api[p] = Idle
  /\ calls[p] < MaxCalls
  /\ calls' = [calls EXCEPT ![p] = @ + 1]
  /\ Live(p) < MaxLive
  /\ IF ~initialized[p]
     THEN /\ ev' = Ev("scheduleJob", p, id, ErrNotInitialised)
          /\ UNCHANGED <<api, cancelled>>
     ELSE IF ~cbIsFn
     THEN /\ ev' = Ev("scheduleJob", p, id, ErrNotAFunction)
          /\ UNCHANGED <<api, cancelled>>
     ELSE /\ api' = [api EXCEPT ![p] =
               [op |-> "insert", id |-> id, d |-> date, meta |-> meta, k |-> k]]
          /\ cancelled' = [cancelled EXCEPT ![p] = @ \ {id}]
          /\ ev' = Ev("scheduleJob", p, id, "pending")
  /\ UNCHANGED <<db, cfgVars, memVars, retriedCount, runs, initTask, invoked,
                 succeeded, crashes>>

\* insertOne has answered: a duplicate key throws, else the timer is armed
ScheduleJobInsert(p) ==
  /\ api[p].op = "insert"
  /\ LET c == api[p] IN
     IF DuplicateKey(db, c.id)
     THEN /\ ev' = Ev("insertOne", p, c.id, ErrDuplicate)
          /\ UNCHANGED <<db, memVars, succeeded>>
     ELSE LET m == JobScheduleJob(Mem(p), runs[p], c.id,
                     Tag(WrapCallback(options[p], c.d, c.meta), "schedule"), c.k)
          IN /\ db' = InsertDocument(db, c.id, c.d, c.meta)
             /\ timers' = [timers EXCEPT ![p] = m.timers]
             /\ scheduledJobs' = [scheduledJobs EXCEPT ![p] = m.jobs]
             /\ succeeded' = [succeeded EXCEPT ![c.id] = FALSE]
             /\ ev' = Ev("insertOne", p, c.id, Ok)
  /\ api' = [api EXCEPT ![p] = Idle]
  /\ UNCHANGED <<cfgVars, retriedCount, runs, initTask, invoked, cancelled,
                 calls, crashes>>

\* ------------------------------------------------ Scheduler.scheduleJobInMemory
ScheduleJobInMemory(p, cbIsFn, date, id, meta, k) ==
  /\ api[p] = Idle
  /\ calls[p] < MaxCalls
  /\ calls' = [calls EXCEPT ![p] = @ + 1]
  /\ Live(p) < MaxLive
  /\ IF ~initialized[p] \/ ~cbIsFn
     THEN LET e == IF ~initialized[p] THEN ErrNotInitialised ELSE ErrNotAFunction
          IN /\ ev' = Ev("scheduleJobInMemory", p, id, e)
             /\ UNCHANGED <<memVars, cancelled>>
     ELSE LET m == JobScheduleJob(Mem(p), runs[p], id,
                     Tag(WrapCallback(options[p], date, meta), "memory"), k)
          IN /\ timers' = [timers EXCEPT ![p] = m.timers]
             /\ scheduledJobs' = [scheduledJobs EXCEPT ![p] = m.jobs]
             /\ cancelled' = [cancelled EXCEPT ![p] = @ \ {id}]
             /\ ev' = Ev("scheduleJobInMemory", p, id, Ok)
  /\ UNCHANGED <<db, cfgVars, retriedCount, runs, api, initTask, invoked,
                 succeeded, crashes>>

\* ----------------------------------------------------- Scheduler.rescheduleJobs
\* rescheduleJobs up to its await of getAllActiveJobsFromDB
RescheduleJobsCall(p, cbIsFn) ==
  /\ api[p] = Idle
  /\ calls[p] < MaxCalls
  /\ calls' = [calls EXCEPT ![p] = @ + 1]
  /\ IF ~initialized[p]
     THEN /\ ev' = Ev("rescheduleJobs", p, "", ErrNotInitialised)
          /\ UNCHANGED api
     ELSE /\ api' = [api EXCEPT ![p] = [op |-> "find", cbIsFn |-> cbIsFn]]
          /\ ev' = Ev("rescheduleJobs", p, "", "pending")
  /\ UNCHANGED <<db, cfgVars, memVars, retriedCount, runs, initTask, histVars,
                 crashes>>

\* jobs.forEach(scheduleJobInMemory): one timer per document found
RECURSIVE ArmAll(_, _, _, _, _, _)
ArmAll(m, rns, opts, d, ids, kf) ==
  IF ids = {} THEN m
  ELSE LET id == CHOOSE i \in ids : TRUE
       IN ArmAll(JobScheduleJob(m, rns, id,
                   Tag(WrapCallback(opts, d[id].dateToRunOn, d[id].meta), "rehydrate"),
                   kf[id]),
                 rns, opts, d, ids \ {id}, kf)

\* find has answered
RescheduleJobsFind(p, kf) ==
  /\ api[p].op = "find"
  /\ LET jobs == ActiveJobs(db) IN
     IF jobs # {} /\ ~api[p].cbIsFn
     THEN /\ ev' = Ev("find", p, "", ErrNotAFunction)
          /\ UNCHANGED <<memVars, cancelled>>
     ELSE LET m == ArmAll(Mem(p), runs[p], options[p], db, jobs, kf)
          IN /\ Live(p) + Cardinality(jobs) <= MaxLive
             /\ timers' = [timers EXCEPT ![p] = m.timers]
             /\ scheduledJobs' = [scheduledJobs EXCEPT ![p] = m.jobs]
             /\ cancelled' = [cancelled EXCEPT ![p] = @ \ jobs]
             /\ ev' = Ev("find", p, "", Ok)
  /\ api' = [api EXCEPT ![p] = Idle]
  /\ UNCHANGED <<db, cfgVars, retriedCount, runs, initTask, invoked, succeeded,
                 calls, crashes>>

\* ---------------------------------------------------------- Scheduler.updateJob
\* history: the id has a timer the table references and a record that a claim
\* would win
HasPendingTimer(p, id) ==
  /\ \E t \in timers[p] : t.jobId = id /\ t.h = Lookup(scheduledJobs[p], id)
  /\ \A r \in runs[p] : r.jobId # id
  /\ id \in DOMAIN db
  /\ db[id].isActive
  /\ ~db[id].isLocked

\* updateJob up to its await of updateOne: the old timer is cleared, the new
\* one armed by scheduleJobInMemory, which is also where the call may throw
UpdateJobCall(p, id, cbIsFn, date, meta, k) ==
  /\ api[p] = Idle
  /\ calls[p] < MaxCalls
  /\ calls' = [calls EXCEPT ![p] = @ + 1]
  /\ LET m0 == ClearAndDelete(Mem(p), id) IN
     IF ~initialized[p] \/ ~cbIsFn
     THEN LET e == IF ~initialized[p] THEN ErrNotInitialised ELSE ErrNotAFunction
          IN /\ ev' = Ev("updateJob", p, id, e)
             /\ timers' = [timers EXCEPT ![p] = m0.timers]
             /\ scheduledJobs' = [scheduledJobs EXCEPT ![p] = m0.jobs]
             /\ UNCHANGED <<api, cancelled>>
     ELSE LET m == JobScheduleJob(m0, runs[p], id,
                     Tag(WrapCallback(options[p], date, meta),
                         IF HasPendingTimer(p, id) THEN "update" ELSE "updateCold"), k)
          IN /\ Cardinality(m0.timers) + Cardinality(runs[p]) < MaxLive
             /\ timers' = [timers EXCEPT ![p] = m.timers]
             /\ scheduledJobs' = [scheduledJobs EXCEPT ![p] = m.jobs]
             /\ api' = [api EXCEPT ![p] =
                  [op |-> "upsert", id |-> id, d |-> date, meta |-> meta]]
             /\ cancelled' = [cancelled EXCEPT ![p] = @ \ {id}]
             /\ ev' = Ev("updateJob", p, id, "pending")
  /\ UNCHANGED <<db, cfgVars, retriedCount, runs, initTask, invoked, succeeded,
                 crashes>>

\* updateOne with upsert has answered
UpdateJobWrite(p) ==
  /\ api[p].op = "upsert"
  /\ db' = UpsertDocument(db, api[p].id, api[p].d, api[p].meta)
  /\ succeeded' = [succeeded EXCEPT ![api[p].id] = @ /\ api[p].id \in DOMAIN db]
  /\ api' = [api EXCEPT ![p] = Idle]
  /\ ev' = Ev("upsert", p, api[p].id, Ok)
  /\ UNCHANGED <<cfgVars, memVars, retriedCount, runs, initTask, invoked,
                 cancelled, calls, crashes>>

\* ---------------------------------------------------------- Scheduler.cancelJob
\* cancelJob up to its await of deleteOne; a Job handle and a string id both
\* clear the timeout the table holds for the id.  Without a collection the
\* call to deleteOne throws a TypeError.
CancelJobCall(p, id) ==
  /\ api[p] = Idle
  /\ calls[p] < MaxCalls
  /\ calls' = [calls EXCEPT ![p] = @ + 1]
  /\ LET m == ClearAndDelete(Mem(p), id) IN
     /\ timers' = [timers EXCEPT ![p] = m.timers]
     /\ scheduledJobs' = [scheduledJobs EXCEPT ![p] = m.jobs]
  /\ IF collection[p]
     THEN /\ api' = [api EXCEPT ![p] = [op |-> "delete", id |-> id]]
          /\ ev' = Ev("cancelJob", p, id, "pending")
     ELSE /\ ev' = Ev("cancelJob", p, id, ErrTypeError)
          /\ UNCHANGED api
  /\ UNCHANGED <<db, cfgVars, retriedCount, runs, initTask, histVars, crashes>>

\* deleteOne has answered
CancelJobDelete(p) ==
  /\ api[p].op = "delete"
  /\ db' = DelEntry(db, api[p].id)
  /\ cancelled' = [cancelled EXCEPT ![p] = @ \cup {api[p].id}]
  /\ api' = [api EXCEPT ![p] = Idle]
  /\ ev' = Ev("deleteOne", p, api[p].id, Ok)
  /\ UNCHANGED <<cfgVars, memVars, retriedCount, runs, initTask, invoked,
                 succeeded, calls, crashes>>

\* ------------------------------------------- Scheduler.getAllActiveJobsFromDB
GetAllActiveJobsFromDB(p) ==
  /\ api[p] = Idle
  /\ calls[p] < MaxCalls
  /\ calls' = [calls EXCEPT ![p] = @ + 1]
  /\ LET e == IF initialized[p] THEN Ok ELSE ErrNotInitialised IN
     /\ ev' = Ev("getAllActiveJobsFromDB", p, "", e)
  /\ UNCHANGED <<db, cfgVars, memVars, retriedCount, runs, api, initTask,
                 histVars, crashes>>

\* ------------------------------------------------------------------ timers
\* A timeout fires.  A chained one (Job.scheduleJob, delay above MAX_TIME)
\* re-arms for the rest of the delay.  The last one calls the wrapped callback,
\* which runs up to its first await (acquireLock's updateOne with the lock,
\* the user callback without it), then stores undefined under the job id.
Fire(p, t) ==
  /\ t \in timers[p]
  /\ LET rest == [timers |-> timers[p] \ {t}, jobs |-> scheduledJobs[p]] IN
     IF t.chain > 0
     THEN LET m == JobScheduleJob(rest, runs[p], t.jobId,
                     [d |-> t.d, meta |-> t.meta, lock |-> t.lock, src |-> t.src],
                     t.chain - 1)
          IN /\ timers' = [timers EXCEPT ![p] = m.timers]
             /\ scheduledJobs' = [scheduledJobs EXCEPT ![p] = m.jobs]
             /\ ev' = Ev("fire", p, t.jobId, "rearmed")
             /\ UNCHANGED <<runs, invoked>>
     ELSE /\ timers' = [timers EXCEPT ![p] = rest.timers]
          /\ scheduledJobs' = [scheduledJobs EXCEPT ![p] = SetEntry(@, t.jobId, Undefined)]
          /\ runs' = [runs EXCEPT ![p] = @ \cup
               {[h |-> t.h, jobId |-> t.jobId, d |-> t.d, meta |-> t.meta,
                 lock |-> t.lock, src |-> t.src,
                 pc |-> IF t.lock THEN "claim" ELSE "callback", error |-> Absent]}]
          /\ invoked' = IF t.lock THEN invoked
                        ELSE [invoked EXCEPT ![t.jobId] = @ + 1]
          /\ ev' = Ev("fire", p, t.jobId, IF t.lock THEN "claiming" ELSE "invoked")
  /\ UNCHANGED <<db, cfgVars, retriedCount, api, initTask, succeeded,
                 cancelled, calls, crashes>>

\* history: why acquireLock's updateOne modified nothing
Refusal(d, id, date) ==
  IF id \notin DOMAIN d THEN "absent"
  ELSE IF ~d[id].isActive THEN "inactive"
  ELSE IF d[id].dateToRunOn # date THEN "date"
  ELSE "locked"

\* prepareCallbackWithlock after acquireLock's updateOne has answered
Claim(p, r) ==
  /\ r \in runs[p]
  /\ r.pc = "claim"
  /\ db' = AcquireLockStore(db, r.jobId, r.d)
  /\ IF AcquireLockResult(db, r.jobId, r.d)
     THEN /\ runs' = [runs EXCEPT ![p] = (@ \ {r}) \cup {[r EXCEPT !.pc = "callback"]}]
          /\ invoked' = [invoked EXCEPT ![r.jobId] = @ + 1]
          /\ ev' = Ev("claim", p, r.jobId, "claimed")
          /\ UNCHANGED memVars
     ELSE LET m == CancelJobFromMemory(Mem(p), r.jobId)
          IN /\ runs' = [runs EXCEPT ![p] = @ \ {r}]
             /\ timers' = [timers EXCEPT ![p] = m.timers]
             /\ scheduledJobs' = [scheduledJobs EXCEPT ![p] = m.jobs]
             /\ ev' = Ev("claim", p, r.jobId, Refusal(db, r.jobId, r.d))
             /\ UNCHANGED invoked
  /\ UNCHANGED <<cfgVars, retriedCount, api, initTask, succeeded, cancelled,
                 calls, crashes>>

\* the user callback has resolved: deleteOne is issued
CallbackSucceeds(p, r) ==
  /\ r \in runs[p]
  /\ r.pc = "callback"
  /\ runs' = [runs EXCEPT ![p] = (@ \ {r}) \cup {[r EXCEPT !.pc = "delete"]}]
  /\ succeeded' = [succeeded EXCEPT ![r.jobId] = TRUE]
  /\ ev' = Ev("callback", p, r.jobId, "resolved")
  /\ UNCHANGED <<db, cfgVars, memVars, retriedCount, api, initTask, invoked,
                 cancelled, calls, crashes>>

\* the user callback has thrown: the catch block runs cancelJobFromMemory and
\* handleRetries up to its await of updateRetryThresholdInDB
CallbackFails(p, r, e) ==
  /\ r \in runs[p]
  /\ r.pc = "callback"
  /\ LET m == CancelJobFromMemory(Mem(p), r.jobId) IN
     /\ timers' = [timers EXCEPT ![p] = m.timers]
     /\ scheduledJobs' = [scheduledJobs EXCEPT ![p] = m.jobs]
  /\ runs' = [runs EXCEPT ![p] = (@ \ {r}) \cup {[r EXCEPT !.pc = "retry", !.error = <<e>>]}]
  /\ ev' = Ev("callback", p, r.jobId, "rejected")
  /\ UNCHANGED <<db, cfgVars, retriedCount, api, initTask, histVars, calls,
                 crashes>>

\* variant: deleteOne removes nothing
DeleteNothing(p, r) ==
  /\ r \in runs[p]
  /\ r.pc = "delete"
  /\ retriedCount' = [retriedCount EXCEPT ![p] = ForgetRetried(@, r.jobId)]
  /\ runs' = [runs EXCEPT ![p] = @ \ {r}]
  /\ ev' = Ev("completed", p, r.jobId, Ok)
  /\ UNCHANGED <<db, cfgVars, memVars, api, initTask, histVars, calls, crashes>>

\* deleteOne has answered: the record is gone, the retry counter forgotten
DeleteDone(p, r) ==
  /\ r \in runs[p]
  /\ r.pc = "delete"
  /\ db' = DelEntry(db, r.jobId)
  /\ retriedCount' = [retriedCount EXCEPT ![p] = ForgetRetried(@, r.jobId)]
  /\ runs' = [runs EXCEPT ![p] = @ \ {r}]
  /\ ev' = Ev("completed", p, r.jobId, Ok)
  /\ UNCHANGED <<cfgVars, memVars, api, initTask, histVars, calls, crashes>>

\* handleRetries after updateRetryThresholdInDB has answered: the counter in
\* memory decides whether another timer is armed
RetryTransition(p, r) ==
  /\ r \in runs[p]
  /\ r.pc = "retry"
  /\ db' = UpdateRetryThresholdInDB(db, r.jobId, r.error[1], options[p].retryCount)
  /\ retriedCount' = [retriedCount EXCEPT ![p] = BumpRetried(@, r.jobId)]
  /\ runs' = [runs EXCEPT ![p] = @ \ {r}]
  /\ IF RetryExceeded(retriedCount[p], r.jobId, options[p].retryCount)
     THEN /\ ev' = Ev("retry", p, r.jobId, "exceeded")
          /\ UNCHANGED memVars
     ELSE LET m == JobScheduleJob(Mem(p), runs[p] \ {r}, r.jobId,
                     Tag(WrapCallback(options[p], r.d, r.meta), "retry"),
                     Segments(options[p].retryWindowInSeconds * 1000))
          IN /\ timers' = [timers EXCEPT ![p] = m.timers]
             /\ scheduledJobs' = [scheduledJobs EXCEPT ![p] = m.jobs]
             /\ ev' = Ev("retry", p, r.jobId, "rearmed")
  /\ UNCHANGED <<cfgVars, api, initTask, histVars, calls, crashes>>

\* -------------------------------------------------------------------- crash
\* the process stops: its statics are those of a newly loaded module again,
\* its timers and pending calls are gone, the store keeps its documents
Crash(p) ==
  /\ crashes < MaxCrashes
  /\ crashes' = crashes + 1
  /\ initialized' = [initialized EXCEPT ![p] = FALSE]
  /\ collection' = [collection EXCEPT ![p] = FALSE]
  /\ options' = [options EXCEPT ![p] = DefaultOptions]
  /\ scheduledJobs' = [scheduledJobs EXCEPT ![p] = EmptyMap]
  /\ retriedCount' = [retriedCount EXCEPT ![p] = EmptyMap]
  /\ timers' = [timers EXCEPT ![p] = {}]
  /\ runs' = [runs EXCEPT ![p] = {}]
  /\ api' = [api EXCEPT ![p] = Idle]
  /\ initTask' = [initTask EXCEPT ![p] = Idle]
  /\ cancelled' = [cancelled EXCEPT ![p] = {}]
  /\ ev' = Ev("crash", p, "", "")
  /\ UNCHANGED <<db, invoked, succeeded, calls>>

\* ------------------------------------------------------------ inputs drawn
Opt(S) == {Absent} \cup {<<v>> : v \in S}

MetaArgs == MetaVals \cup {NoMeta}

Configs == {"mongo", "address", "noaddress"}

Options(retryCounts, useLocks) ==
  [retryWindowInSeconds : {Absent}, retryCount : retryCounts, useLock : useLocks]

\* what every specification's processes do by themselves
Pipeline(P) ==
  \/ \E p \in P : \E t \in timers[p] : Fire(p, t)
  \/ \E p \in P : \E r \in runs[p] : Claim(p, r)
  \/ \E p \in P : \E r \in runs[p] : CallbackSucceeds(p, r)
  \/ \E p \in P : \E r \in runs[p], e \in Errors : CallbackFails(p, r, e)
  \/ \E p \in P : \E r \in runs[p] : DeleteDone(p, r)
  \/ \E p \in P : \E r \in runs[p] : RetryTransition(p, r)

\* ------------------------------------------------ Spec: one process, any call
\* One process that may call every public operation in any order, also before
\* and during init.
Next ==
  \/ \E cfg \in Configs, o \in Options({<<MaxRetryCount>>}, Opt({TRUE})) :
        InitCall("p1", cfg, o)
  \/ InitConnected("p1")
  \/ InitDone("p1")
  \/ \E f \in BOOLEAN, d \in Dates, id \in {"a"} :
        (Few("p1") /\ ScheduleJobCall("p1", f, d, id, NoMeta, 0))
  \/ ScheduleJobInsert("p1")
  \/ \E f \in BOOLEAN, d \in Dates, id \in {"a"} :
        (Few("p1") /\ ScheduleJobInMemory("p1", f, d, id, NoMeta, 0))
  \/ \E f \in BOOLEAN : (Few("p1") /\ RescheduleJobsCall("p1", f))
  \/ \E kf \in [JobIds -> {0}] : RescheduleJobsFind("p1", kf)
  \/ \E f \in BOOLEAN, d \in Dates, id \in {"a"} :
        (Few("p1") /\ UpdateJobCall("p1", id, f, d, NoMeta, 0))
  \/ UpdateJobWrite("p1")
  \/ \E id \in {"a"} : (Few("p1") /\ CancelJobCall("p1", id))
  \/ CancelJobDelete("p1")
  \/ (Few("p1") /\ GetAllActiveJobsFromDB("p1"))
  \/ Pipeline({"p1"})

Spec == Init /\ [][Next]_vars

\* ------------------------------------- SpecRetry: a callback that never succeeds
\* One process, initialised once and never restarted, schedules jobs whose
\* callback throws on every attempt; no job is cancelled, updated or re-armed.
NextRetry ==
  \/ /\ ~initialized["p1"]
     /\ \E o \in Options(Opt(0..MaxRetryCount), Opt({TRUE})) : InitCall("p1", "mongo", o)
  \/ InitDone("p1")
  \/ \E id \in JobIds, k \in 0..MaxChain : (Few("p1") /\ ScheduleJobCall("p1", TRUE, 1, id, NoMeta, k))
  \/ ScheduleJobInsert("p1")
  \/ \E t \in timers["p1"] : Fire("p1", t)
  \/ \E r \in runs["p1"] : Claim("p1", r)
  \/ \E r \in runs["p1"], e \in Errors : CallbackFails("p1", r, e)
  \/ \E r \in runs["p1"] : RetryTransition("p1", r)

SpecRetry == Init /\ [][NextRetry]_vars

\* ------------------------------------------ SpecFleet: processes sharing a store
\* Every process is initialised once with useLock = true against the same
\* collection; a job is scheduled by one of them and the others arm their
\* timers for it with rescheduleJobs.
NextFleet ==
  \/ \E p \in Procs :
        /\ ~initialized[p]
        /\ InitCall(p, "mongo", [retryWindowInSeconds |-> Absent,
                                 retryCount |-> <<MaxRetryCount>>,
                                 useLock |-> <<TRUE>>])
  \/ \E p \in Procs : InitDone(p)
  \/ \E p \in Procs : (Few(p) /\ ScheduleJobCall(p, TRUE, 1, "a", NoMeta, 0))
  \/ \E p \in Procs : ScheduleJobInsert(p)
  \/ \E p \in Procs : (Few(p) /\ RescheduleJobsCall(p, TRUE))
  \/ \E p \in Procs, kf \in [JobIds -> {0}] : RescheduleJobsFind(p, kf)
  \/ Pipeline(Procs)

SpecFleet == Init /\ [][NextFleet]_vars

\* -------------------------------------- SpecCrash: a process that stops once
\* One process schedules a job, may stop at any step and start again; after
\* the restart it calls init and rescheduleJobs.
NextCrash ==
  \/ /\ ~initialized["p1"]
     /\ \E o \in Options({<<MaxRetryCount>>}, Opt({TRUE})) : InitCall("p1", "mongo", o)
  \/ InitDone("p1")
  \/ (Few("p1") /\ ScheduleJobCall("p1", TRUE, 1, "a", NoMeta, 0))
  \/ ScheduleJobInsert("p1")
  \/ (Few("p1") /\ RescheduleJobsCall("p1", TRUE))
  \/ \E kf \in [JobIds -> {0}] : RescheduleJobsFind("p1", kf)
  \/ Pipeline({"p1"})
  \/ Crash("p1")

\* what Node's event loop and the store guarantee: an armed timer fires, a
\* store call is answered, a started callback settles
Progress ==
  \/ InitDone("p1")
  \/ ScheduleJobInsert("p1")
  \/ \E kf \in [JobIds -> {0}] : RescheduleJobsFind("p1", kf)
  \/ Pipeline({"p1"})

SpecCrash == Init /\ [][NextCrash]_vars /\ WF_vars(Progress)

\* ---------------------------- SpecUpdate: a job rescheduled under other timers
\* Two processes with useLock = true: p1 schedules the job and may move it to
\* another date with updateJob, p2 arms its timers with rescheduleJobs.
NextUpdate ==
  \/ \E p \in Procs :
        /\ ~initialized[p]
        /\ InitCall(p, "mongo", [retryWindowInSeconds |-> Absent,
                                 retryCount |-> <<MaxRetryCount>>,
                                 useLock |-> <<TRUE>>])
  \/ \E p \in Procs : InitDone(p)
  \/ (Few("p1") /\ ScheduleJobCall("p1", TRUE, 1, "a", NoMeta, 0))
  \/ ScheduleJobInsert("p1")
  \/ (Few("p1") /\ UpdateJobCall("p1", "a", TRUE, 2, NoMeta, 0))
  \/ UpdateJobWrite("p1")
  \/ (Few("p2") /\ RescheduleJobsCall("p2", TRUE))
  \/ \E kf \in [JobIds -> {0}] : RescheduleJobsFind("p2", kf)
  \/ Pipeline(Procs)

SpecUpdate == Init /\ [][NextUpdate]_vars

\* -------------------------------- SpecCancel: jobs cancelled while they wait
\* One process schedules a job and calls cancelJob, for that id or another
\* one, up to twice, each time while no callback of the id is running (the
\* job waits on its first timer, on a chained one or on a retry timer, or
\* nothing is left of it).
NextCancel ==
  \/ /\ ~initialized["p1"]
     /\ \E o \in Options({<<MaxRetryCount>>}, Opt({TRUE})) : InitCall("p1", "mongo", o)
  \/ InitDone("p1")
  \/ \E k \in 0..MaxChain : ScheduleJobCall("p1", TRUE, 1, "a", NoMeta, k)
  \/ ScheduleJobInsert("p1")
  \/ \E id \in JobIds :
        /\ initialized["p1"]
        /\ \A r \in runs["p1"] : r.jobId # id
        /\ CancelJobCall("p1", id)
  \/ CancelJobDelete("p1")
  \/ Pipeline({"p1"})

SpecCancel == Init /\ [][NextCancel]_vars

\* ------------------------------------------- SpecSuccess: callbacks that resolve
\* One process, initialised once with or without the lock, schedules each id
\* once; every callback resolves.
NextSuccess ==
  \/ /\ ~initialized["p1"]
     /\ \E o \in Options({<<MaxRetryCount>>}, Opt(BOOLEAN)) : InitCall("p1", "mongo", o)
  \/ InitDone("p1")
  \/ \E id \in JobIds, k \in 0..MaxChain :
        /\ initialized["p1"]
        /\ invoked[id] = 0 /\ id \notin DOMAIN db
        /\ ScheduleJobCall("p1", TRUE, 1, id, "x", k)
  \/ ScheduleJobInsert("p1")
  \/ \E t \in timers["p1"] : Fire("p1", t)
  \/ \E r \in runs["p1"] : Claim("p1", r)
  \/ \E r \in runs["p1"] : CallbackSucceeds("p1", r)
  \/ \E r \in runs["p1"] : DeleteDone("p1", r)
  \/ (initialized["p1"] /\ GetAllActiveJobsFromDB("p1"))

SpecSuccess == Init /\ [][NextSuccess]_vars

\* ------------------------------------------ SpecRestart: failures and a restart
\* One process with or without the lock; its callbacks may fail; it may stop
\* and start again, and calls rescheduleJobs while its table is empty, as a
\* process does at start.
NextRestart ==
  \/ /\ ~initialized["p1"]
     /\ \E o \in Options({<<MaxRetryCount>>}, Opt(BOOLEAN)) : InitCall("p1", "mongo", o)
  \/ InitDone("p1")
  \/ (Few("p1") /\ initialized["p1"] /\ ScheduleJobCall("p1", TRUE, 1, "a", NoMeta, 0))
  \/ ScheduleJobInsert("p1")
  \/ /\ initialized["p1"]
     /\ scheduledJobs["p1"] = EmptyMap
     /\ RescheduleJobsCall("p1", TRUE)
  \/ \E kf \in [JobIds -> {0}] : RescheduleJobsFind("p1", kf)
  \/ Pipeline({"p1"})
  \/ Crash("p1")

SpecRestart == Init /\ [][NextRestart]_vars

\* ----------------------------------------------- SpecMeta: jobs with metadata
\* One process with or without the lock schedules job a with or without
\* metadata and updates it while its timer is pending; callbacks may fail;
\* the process may stop and start again and calls rescheduleJobs at start.
NextMeta ==
  \/ /\ ~initialized["p1"]
     /\ \E o \in Options({<<MaxRetryCount>>}, Opt(BOOLEAN)) : InitCall("p1", "mongo", o)
  \/ InitDone("p1")
  \/ \E meta \in MetaArgs :
        /\ initialized["p1"]
        /\ calls["p1"] = 0
        /\ ScheduleJobCall("p1", TRUE, 1, "a", meta, 0)
  \/ ScheduleJobInsert("p1")
  \/ \E date \in Dates, meta \in MetaArgs :
        /\ initialized["p1"]
        /\ HasPendingTimer("p1", "a")
        /\ UpdateJobCall("p1", "a", TRUE, date, meta, 0)
  \/ UpdateJobWrite("p1")
  \/ /\ initialized["p1"]
     /\ scheduledJobs["p1"] = EmptyMap
     /\ crashes > 0
     /\ RescheduleJobsCall("p1", TRUE)
  \/ \E kf \in [JobIds -> {0}] : RescheduleJobsFind("p1", kf)
  \/ Pipeline({"p1"})
  \/ Crash("p1")

SpecMeta == Init /\ [][NextMeta]_vars

\* --------------------------------------------------- SpecInit: init, repeated
\* One process calls init any number of times, each call with any of the
\* options given or left out; it may stop and start again.
Windows == {60}

AllOptions ==
  [retryWindowInSeconds : Opt(Windows), retryCount : Opt(0..MaxRetryCount),
   useLock : Opt(BOOLEAN)]

NextInit ==
  \/ \E cfg \in Configs, o \in AllOptions : InitCall("p1", cfg, o)
  \/ InitConnected("p1")
  \/ InitDone("p1")
  \/ Crash("p1")

SpecInit == Init /\ [][NextInit]_vars

\* ------------------------------------------- SpecErrors: failures that differ
\* One process with or without the lock schedules job a; every callback
\* fails, with one of two errors.
Failures == {"E1", "E2"}

NextErrors ==
  \/ /\ ~initialized["p1"]
     /\ \E o \in Options(Opt(0..MaxRetryCount), Opt(BOOLEAN)) : InitCall("p1", "mongo", o)
  \/ InitDone("p1")
  \/ \E k \in 0..MaxChain :
        /\ initialized["p1"]
        /\ calls["p1"] = 0
        /\ ScheduleJobCall("p1", TRUE, 1, "a", NoMeta, k)
  \/ ScheduleJobInsert("p1")
  \/ \E t \in timers["p1"] : Fire("p1", t)
  \/ \E r \in runs["p1"] : Claim("p1", r)
  \/ \E r \in runs["p1"], e \in Failures : CallbackFails("p1", r, e)
  \/ \E r \in runs["p1"] : RetryTransition("p1", r)

SpecErrors == Init /\ [][NextErrors]_vars

\* --------------------------------------- SpecStoreError: store calls that fail
\* One process with or without the lock schedules each id once; callbacks
\* resolve or fail; the deleteOne after a resolved callback and the updateOne
\* of the retry transition may be answered with an error.
StoreErrors == {"S1"}

\* deleteOne after a resolved callback rejects: the rejection is caught by the
\* catch block of the wrapped callback, which runs cancelJobFromMemory and
\* handleRetries up to its await of updateRetryThresholdInDB
DeleteFails(p, r, e) ==
  /\ r \in runs[p]
  /\ r.pc = "delete"
  /\ LET m == CancelJobFromMemory(Mem(p), r.jobId) IN
     /\ timers' = [timers EXCEPT ![p] = m.timers]
     /\ scheduledJobs' = [scheduledJobs EXCEPT ![p] = m.jobs]
  /\ runs' = [runs EXCEPT ![p] = (@ \ {r}) \cup {[r EXCEPT !.pc = "retry", !.error = <<e>>]}]
  /\ ev' = Ev("deleteFailed", p, r.jobId, e)
  /\ UNCHANGED <<db, cfgVars, retriedCount, api, initTask, histVars, calls,
                 crashes>>

\* variant: the counter in memory is incremented before the store is updated
RetryFailsCounted(p, r) ==
  /\ r \in runs[p]
  /\ r.pc = "retry"
  /\ retriedCount' = [retriedCount EXCEPT ![p] = BumpRetried(@, r.jobId)]
  /\ runs' = [runs EXCEPT ![p] = @ \ {r}]
  /\ ev' = Ev("retryFailed", p, r.jobId, "rejected")
  /\ UNCHANGED <<db, cfgVars, memVars, api, initTask, histVars, calls, crashes>>

\* updateOne of updateRetryThresholdInDB rejects: handleRetries rejects at its
\* first await and the wrapped callback with it
RetryFails(p, r) ==
  /\ r \in runs[p]
  /\ r.pc = "retry"
  /\ runs' = [runs EXCEPT ![p] = @ \ {r}]
  /\ ev' = Ev("retryFailed", p, r.jobId, "rejected")
  /\ UNCHANGED <<db, cfgVars, memVars, retriedCount, api, initTask, histVars,
                 calls, crashes>>

NextStoreError ==
  \/ /\ ~initialized["p1"]
     /\ \E o \in Options({<<MaxRetryCount>>}, Opt(BOOLEAN)) : InitCall("p1", "mongo", o)
  \/ InitDone("p1")
  \/ \E id \in JobIds, k \in 0..MaxChain :
        /\ initialized["p1"]
        /\ invoked[id] = 0 /\ id \notin DOMAIN db
        /\ ScheduleJobCall("p1", TRUE, 1, id, NoMeta, k)
  \/ ScheduleJobInsert("p1")
  \/ Pipeline({"p1"})
  \/ \E r \in runs["p1"], e \in StoreErrors : DeleteFails("p1", r, e)
  \/ \E r \in runs["p1"] : RetryFails("p1", r)

SpecStoreError == Init /\ [][NextStoreError]_vars

\* ----------------------------------------------- SpecJob: the Job class alone
\* Job.scheduleJob and Job.cancelJob with the delay in ms kept exactly.  A
\* time t is written [q, r] for q * MAX_TIME + r with r below MAX_TIME, as
\* q * MAX_TIME is beyond the integers at hand when q > 1.
Ms(q, r) == [q |-> q, r |-> r]

JobDelays ==
  {Ms(q, r) : q \in 0..(MaxChain + 1), r \in {0, 1, MAX_TIME - 1}} \cup {Ms(0, -1)}

\* a + b
Plus(a, b) ==
  IF a.r > 0 /\ b.r >= MAX_TIME - a.r
  THEN Ms(a.q + b.q + 1, a.r - (MAX_TIME - b.r))
  ELSE Ms(a.q + b.q, a.r + b.r)

\* variant: scheduleJob without the chain
ExceedsNever(t) == FALSE

\* timeRemaining > this.MAX_TIME
ExceedsMax(t) == t.q > 1 \/ (t.q = 1 /\ t.r > 0)

\* timeRemaining - this.MAX_TIME
MinusMax(t) == Ms(t.q - 1, t.r)

\* a handle that no armed timeout has and that the table does not hold
FreshJobHandle(m) ==
  LET used == {t.h : t \in m.timers} \cup {m.jobs[i] : i \in DOMAIN m.jobs}
  IN CHOOSE n \in 1..(Cardinality(used) + 1) :
       n \notin used /\ \A k \in 1..(n - 1) : k \in used

\* variant: only the first timeout of a job is stored in the table
JobArmFirstHandle(m, id, timeRemaining, delay, waited) ==
  LET h == FreshJobHandle(m)
      chained == ExceedsMax(timeRemaining)
  IN [timers |-> m.timers \cup
        {[h |-> h, jobId |-> id,
          wait |-> IF chained THEN Ms(1, 0) ELSE timeRemaining,
          then |-> IF chained THEN "again" ELSE "action",
          rest |-> IF chained THEN MinusMax(timeRemaining) ELSE timeRemaining,
          delay |-> delay, waited |-> waited]},
      jobs |-> IF id \in DOMAIN m.jobs THEN m.jobs ELSE SetEntry(m.jobs, id, h)]

\* Job.scheduleJob(callback, timeRemaining, scheduledJobs): one setTimeout,
\* for MAX_TIME when more than that remains, and its handle stored under the
\* job id.  History: the delay first asked for and the waits already over.
JobArm(m, id, timeRemaining, delay, waited) ==
  LET h == FreshJobHandle(m)
      chained == ExceedsMax(timeRemaining)
  IN [timers |-> m.timers \cup
        {[h |-> h, jobId |-> id,
          wait |-> IF chained THEN Ms(1, 0) ELSE timeRemaining,
          then |-> IF chained THEN "again" ELSE "action",
          rest |-> IF chained THEN MinusMax(timeRemaining) ELSE timeRemaining,
          delay |-> delay, waited |-> waited]},
      jobs |-> SetEntry(m.jobs, id, h)]

jobVars == <<db, cfgVars, retriedCount, runs, api, initTask, succeeded, calls, crashes>>

\* new Job(id).scheduleJob(action, delay, scheduledJobs)
JobScheduleCall(p, id, delay) ==
  /\ id \notin DOMAIN scheduledJobs[p]
  /\ LET m == JobArm(Mem(p), id, delay, delay, Ms(0, 0)) IN
     /\ timers' = [timers EXCEPT ![p] = m.timers]
     /\ scheduledJobs' = [scheduledJobs EXCEPT ![p] = m.jobs]
  /\ ev' = Ev("Job.scheduleJob", p, id, "armed")
  /\ UNCHANGED <<jobVars, invoked, cancelled>>

\* a timeout of Job.scheduleJob expires, not before its wait is over: it calls
\* scheduleJob for the rest, or runs the action and stores undefined
JobTimeout(p, t) ==
  /\ t \in timers[p]
  /\ LET rest == [timers |-> timers[p] \ {t}, jobs |-> scheduledJobs[p]]
         over == Plus(t.waited, t.wait)
     IN IF t.then = "again"
        THEN LET m == JobArm(rest, t.jobId, t.rest, t.delay, over) IN
             /\ timers' = [timers EXCEPT ![p] = m.timers]
             /\ scheduledJobs' = [scheduledJobs EXCEPT ![p] = m.jobs]
             /\ ev' = Ev("again", p, t.jobId, over)
             /\ UNCHANGED invoked
        ELSE /\ timers' = [timers EXCEPT ![p] = rest.timers]
             /\ scheduledJobs' = [scheduledJobs EXCEPT ![p] = SetEntry(@, t.jobId, Undefined)]
             /\ invoked' = [invoked EXCEPT ![t.jobId] = @ + 1]
             /\ ev' = Ev("ran", p, t.jobId, over)
  /\ UNCHANGED <<jobVars, cancelled>>

\* Job.cancelJob(scheduledJobs): clearTimeout of the handle in the table
JobCancelJob(p, id) ==
  /\ id \in DOMAIN scheduledJobs[p]
  /\ id \notin cancelled[p]
  /\ timers' = [timers EXCEPT ![p] = ClearTimeout(@, Lookup(scheduledJobs[p], id))]
  /\ cancelled' = [cancelled EXCEPT ![p] = @ \cup {id}]
  /\ ev' = Ev("Job.cancelJob", p, id,
              {t \in timers[p] : t.h = Lookup(scheduledJobs[p], id)})
  /\ UNCHANGED <<jobVars, scheduledJobs, invoked>>

NextJob ==
  \/ \E id \in JobIds, delay \in JobDelays : JobScheduleCall("p1", id, delay)
  \/ \E t \in timers["p1"] : JobTimeout("p1", t)
  \/ \E id \in JobIds : JobCancelJob("p1", id)

SpecJob == Init /\ [][NextJob]_vars

\* ================================================================ properties
TimersFor(p, id) == {t \in timers[p] : t.jobId = id}

RunsFor(p, id) == {r \in runs[p] : r.jobId = id}

\* nothing of the job is left in the process: no timer and no running callback
Settled(p, id) == TimersFor(p, id) = {} /\ RunsFor(p, id) = {}

\* a handle the table holds is the handle of an armed timer
TableSound ==
  \A p \in Procs : \A id \in DOMAIN scheduledJobs[p] :
    scheduledJobs[p][id] = Undefined
    \/ \E t \in timers[p] : t.h = scheduledJobs[p][id]

\* C1 (SpecRetry): a job whose callback fails on every attempt is invoked at
\* most retryCount + 1 times; once nothing of it is left in the process it has
\* been invoked exactly retryCount + 1 times, its record is still in the store
\* with isActive = false, and a record with isActive = false has no timer and
\* no running callback.
C1_RetryExhaustion ==
  \A id \in JobIds :
    LET n == options["p1"].retryCount IN
    /\ invoked[id] <= n + 1
    /\ invoked[id] > 0 => id \in DOMAIN db
    /\ (id \in DOMAIN db /\ Settled("p1", id)) =>
          invoked[id] = n + 1 /\ ~db[id].isActive
    /\ (id \in DOMAIN db /\ ~db[id].isActive) =>
          invoked[id] = n + 1 /\ Settled("p1", id)

\* the last failure of a job with retryCount = MaxRetryCount has been handled
C1_Exhausted ==
  /\ ev.a = "retry" /\ ev.res = "exceeded"
  /\ options["p1"].retryCount = MaxRetryCount
  /\ options["p1"].useLock
  /\ ev.id \in DOMAIN db
  /\ ~db[ev.id].isActive
  /\ invoked[ev.id] = MaxRetryCount + 1
  /\ Settled("p1", ev.id)

\* the record is active, unlocked and due at the date the callback was armed for
Claimable(r) ==
  /\ r.jobId \in DOMAIN db
  /\ db[r.jobId].isActive
  /\ ~db[r.jobId].isLocked
  /\ db[r.jobId].dateToRunOn = r.d

\* the step applies the claim of r in process p and r goes on to the callback
ClaimApplied(p, r) == r \in runs[p] /\ r.pc = "claim" /\ r \notin runs'[p]

ClaimWon(p, r) == \E r2 \in runs'[p] : r2.h = r.h /\ r2.pc = "callback"

\* C2 (SpecFleet): whenever a claim is applied to the store it succeeds if
\* and only if the record is active, unlocked and has the matching date; a
\* success leaves the record locked and a failure leaves the store as it was,
\* so of the claims racing for one record exactly the first applied succeeds.
C2_ExactlyOneClaimer ==
  [][\A p \in Procs : \A r \in runs[p] :
       ClaimApplied(p, r) =>
         /\ ClaimWon(p, r) <=> Claimable(r)
         /\ ClaimWon(p, r) => db'[r.jobId].isLocked
         /\ ~ClaimWon(p, r) => db' = db]_vars

\* a process has won the claim while the claim of another one is in flight
C2_Race ==
  /\ ev.a = "claim" /\ ev.res = "claimed"
  /\ \E q \in Procs \ {ev.p} : \E r \in runs[q] :
       r.jobId = ev.id /\ r.pc = "claim" /\ r.d = db[ev.id].dateToRunOn

Executing(id) ==
  {pr \in UNION {{<<p, r>> : r \in runs[p]} : p \in Procs} :
     pr[2].jobId = id /\ pr[2].pc = "callback"}

\* C3 (SpecFleet): with useLock = true at most one user callback of a job id
\* is running in the whole fleet at any time, and once an execution of the
\* job has succeeded no callback of that job is invoked any more.
C3_OneExecution ==
  /\ [](\A id \in JobIds : Cardinality(Executing(id)) <= 1)
  /\ [][\A id \in JobIds :
          (succeeded[id] /\ succeeded'[id]) => invoked'[id] = invoked[id]]_vars

\* after a success in one process the claim of another process is refused
C3_RefusedAfterSuccess ==
  /\ ev.a = "claim" /\ ev.res = "locked"
  /\ succeeded[ev.id]
  /\ \E q \in Procs \ {ev.p} : \E r \in runs[q] : r.jobId = ev.id /\ r.pc = "delete"

\* the process has been restarted and its rescheduleJobs has just returned
\* while the record of id is active
Recovered(id) ==
  /\ crashes > 0
  /\ ev.a = "find" /\ ev.res = Ok
  /\ id \in ActiveJobs(db)

\* C4 (SpecCrash): after a crash at any point, once the restarted process has
\* run init and rescheduleJobs, every record that is active is eventually
\* executed again or stops being active (completed or abandoned).
C4_EventuallyRunsAgain ==
  \A id \in JobIds :
    Recovered(id) ~> (Executing(id) # {} \/ id \notin ActiveJobs(db))

\* rescheduleJobs of process p returns with this step
Rehydrated(p) ==
  api[p].op = "find" /\ api'[p] = Idle /\ ev'.a = "find" /\ ev'.res = Ok

\* C5 (Spec): when rescheduleJobs returns, every record with isActive = true
\* has exactly one live timer in the process, armed for the record's date,
\* and a record with isActive = false has none.
C5_OneTimerPerActiveRecord ==
  [][\A p \in Procs : Rehydrated(p) =>
       \A id \in DOMAIN db' :
         IF db'[id].isActive
         THEN /\ Cardinality(TimersFor(p, id)') = 1
              /\ \A t \in TimersFor(p, id)' : t.d = db'[id].dateToRunOn
         ELSE TimersFor(p, id)' = {}]_vars

\* C6 (Spec): from the return of cancelJob(id) until id is scheduled again the
\* process arms no timer for id and starts no callback of id.
C6_NothingNewAfterCancel ==
  [][\A p \in Procs : \A id \in JobIds :
       (id \in cancelled[p] /\ id \in cancelled'[p]) =>
          /\ TimersFor(p, id)' \subseteq TimersFor(p, id)
          /\ invoked'[id] = invoked[id]]_vars

\* C7 (Spec): the timer updateJob arms for a job with a pending timer goes on
\* to execute the callback: with useLock = true its claim succeeds.
C7_UpdatedTimerExecutes ==
  [][\A p \in Procs : \A r \in runs[p] :
       (ClaimApplied(p, r) /\ r.src = "update") => ClaimWon(p, r)]_vars

\* C8 (SpecUpdate): with useLock = true a claim that is applied while the
\* record holds another date than the one the timer was armed for fails: the
\* callback is not invoked and the store is left as it was.
C8_StaleTimerRefused ==
  [][\A p \in Procs : \A r \in runs[p] :
       (ClaimApplied(p, r) /\ r.jobId \in DOMAIN db
          /\ db[r.jobId].dateToRunOn # r.d) =>
            /\ ~ClaimWon(p, r)
            /\ invoked' = invoked
            /\ db' = db]_vars

\* a timer of p2 has been refused because p1 moved the job to another date
C8_RefusedAfterUpdate ==
  /\ ev.a = "claim" /\ ev.res = "date" /\ ev.p = "p2"
  /\ db[ev.id].dateToRunOn = 2
  /\ ~db[ev.id].isLocked

\* C9 (Spec): scheduleJob with an id the store already holds fails with
\* "JobId must be unique" and leaves the store, the timers and the timer table
\* as they were.
C9_DuplicateRejected ==
  [][\A p \in Procs :
       (api[p].op = "insert" /\ api'[p] = Idle /\ api[p].id \in DOMAIN db) =>
          /\ ev'.res = ErrDuplicate
          /\ UNCHANGED <<db, timers, scheduledJobs>>]_vars

\* the second scheduleJob was rejected while the first job's timer is pending
C9_RejectedWhilePending ==
  /\ ev.a = "insertOne" /\ ev.res = ErrDuplicate
  /\ \E t \in TimersFor(ev.p, ev.id) : t.h = Lookup(scheduledJobs[ev.p], ev.id)
  /\ ev.id \in DOMAIN db

\* C10 (Spec): a public operation called before init has completed fails with
\* "Scheduler not Initialised" and changes neither the timer table nor the
\* store.
C10_FailsBeforeInit ==
  [][\A p \in Procs :
       (~initialized[p] /\ calls'[p] = calls[p] + 1) =>
          /\ ev'.res = ErrNotInitialised
          /\ UNCHANGED <<db, scheduledJobs>>]_vars

\* process p calls cancelJob(id) with this step
CancelCalled(p, id) ==
  calls'[p] = calls[p] + 1 /\ ev'.a = "cancelJob" /\ ev'.p = p /\ ev'.id = id

\* the deleteOne of cancelJob(id) of process p is answered with this step
CancelReturned(p, id) ==
  api[p].op = "delete" /\ api[p].id = id /\ api'[p] = Idle

\* nothing of id is left: no timer, no running callback, no table entry, no
\* record
NothingLeft(p, id) ==
  /\ Settled(p, id)
  /\ id \notin DOMAIN scheduledJobs[p]
  /\ id \notin DOMAIN db

\* C11 (SpecCancel): cancelJob(id) clears the timer of id and removes the
\* table entry when it is called, deletes the record when deleteOne answers,
\* and raises no error; once it has returned nothing of id is left, and a
\* call for an id of which nothing is left changes neither the timer table
\* nor the timers nor the store.
C11_CancelIdempotent ==
  /\ [](\A p \in Procs : \A id \in cancelled[p] : NothingLeft(p, id))
  /\ [][\A p \in Procs : \A id \in JobIds :
          /\ CancelCalled(p, id) =>
               /\ ev'.res = "pending"
               /\ TimersFor(p, id)' = {}
               /\ id \notin DOMAIN scheduledJobs'[p]
               /\ db' = db
               /\ NothingLeft(p, id) => UNCHANGED <<scheduledJobs, timers>>
          /\ CancelReturned(p, id) =>
               /\ ev'.res = Ok
               /\ id \notin DOMAIN db'
               /\ UNCHANGED <<scheduledJobs, timers>>
               /\ NothingLeft(p, id) => db' = db]_vars

\* cancelJob is called again for a job that had failed once and was cancelled
\* while it waited on its retry timer
C11_SecondCancel ==
  /\ ev.a = "cancelJob" /\ ev.res = "pending"
  /\ ev.id \in cancelled[ev.p]
  /\ ev.id \in DOMAIN retriedCount[ev.p]
  /\ calls[ev.p] = MaxCalls

\* a wait that setTimeout takes as it is: at most MAX_TIME
Bounded(wait) == wait.q = 0 \/ wait = Ms(1, 0)

\* the timeout of id that runs the action expires with this step
ActionRuns(p, t) ==
  t \in timers[p] /\ t \notin timers'[p] /\ invoked'[t.jobId] = invoked[t.jobId] + 1

\* C12 (SpecJob): Job.scheduleJob runs the action once for every delay: no
\* wait handed to setTimeout exceeds MAX_TIME, the action has run at most
\* once, it has run once when no timeout of the job is left and the job was
\* not cancelled, and when it runs the waits that are over sum to the delay.
C12_RunsOnceAfterFullDelay ==
  /\ [](\A id \in JobIds :
          /\ invoked[id] <= 1
          /\ \A t \in TimersFor("p1", id) : Bounded(t.wait) /\ invoked[id] = 0
          /\ (id \in DOMAIN scheduledJobs["p1"] /\ TimersFor("p1", id) = {}
                /\ id \notin cancelled["p1"]) => invoked[id] = 1)
  /\ [][\A t \in timers["p1"] :
          ActionRuns("p1", t) => Plus(t.waited, t.wait) = t.delay]_vars

\* the action has run after the longest delay that is a multiple of MAX_TIME
C12_RanAfterMultiple ==
  ev.a = "ran" /\ ev.res = Ms(MaxChain + 1, 0)

\* C13 (SpecJob): the table entry of a job always references the timeout of
\* the job that is pending, so Job.cancelJob leaves no timeout of the job
\* behind, whichever segment of the chain is pending; after it the action
\* never runs; cancelling a job whose action has run changes nothing.
C13_CancelStopsChain ==
  /\ [](\A t \in timers["p1"] : Lookup(scheduledJobs["p1"], t.jobId) = t.h)
  /\ [](\A id \in cancelled["p1"] : TimersFor("p1", id) = {})
  /\ [][\A id \in JobIds :
          /\ id \in cancelled["p1"] => invoked'[id] = invoked[id]
          /\ (id \in cancelled'["p1"] \ cancelled["p1"] /\ invoked[id] = 1) =>
                UNCHANGED <<timers, scheduledJobs, invoked>>]_vars

\* a job was cancelled after a first segment of MAX_TIME, with more to wait
C13_CancelledInChain ==
  /\ ev.a = "Job.cancelJob"
  /\ \E t \in ev.res : t.waited.q >= 1
  /\ invoked[ev.id] = 0

\* C14 (SpecSuccess): a job whose callback resolves on its first attempt is
\* invoked exactly once; once its deleteOne has answered the record is gone
\* from the store, getAllActiveJobsFromDB does not return the id, and the
\* process has no timer, no table handle and no retry counter for it.
C14_SucceedsOnce ==
  \A id \in JobIds :
    /\ invoked[id] <= 1
    /\ (succeeded[id] /\ RunsFor("p1", id) = {}) =>
          /\ invoked[id] = 1
          /\ id \notin DOMAIN db
          /\ id \notin ActiveJobs(db)
          /\ TimersFor("p1", id) = {}
          /\ Lookup(scheduledJobs["p1"], id) = Undefined
          /\ id \notin DOMAIN retriedCount["p1"]

\* getAllActiveJobsFromDB is called after one job has completed while the
\* other is still stored: it returns the other one only
C14_ListedAfterSuccess ==
  /\ ev.a = "getAllActiveJobsFromDB" /\ ev.res = Ok
  /\ \E id \in JobIds :
        /\ succeeded[id] /\ RunsFor("p1", id) = {} /\ invoked[id] = 1
        /\ ActiveJobs(db) = JobIds \ {id}

\* the record of id exists and is abandoned
Abandoned(d, id) == id \in DOMAIN d /\ ~d[id].isActive

\* C15 (SpecRestart): abandonment is terminal: from a state in which the
\* record of a job has isActive = false, no step sets it back to true, no
\* step removes the record, and no step invokes the user callback of the job.
C15_AbandonmentTerminal ==
  [][\A id \in JobIds :
       Abandoned(db, id) => (Abandoned(db', id) /\ invoked'[id] = invoked[id])]_vars

\* the record of id as it is once the write of an updateJob in flight for id
\* has been applied
StoredFor(p, id) ==
  IF api[p].op = "upsert" /\ api[p].id = id
  THEN UpsertDocument(db, id, api[p].d, api[p].meta)[id]
  ELSE db[id]

\* the user callback is called with this step: r is its argument
Invocation(p, r) == r \in runs'[p] /\ r \notin runs[p] /\ r.pc = "callback"

\* C16 (SpecMeta): on every invocation of the user callback for a job whose
\* record exists, the argument carries the job's due time and the metadata
\* stored for the job by scheduleJob or the latest updateJob.
C16_ArgumentCarriesStored ==
  [][\A r \in runs'["p1"] :
       (Invocation("p1", r) /\ r.jobId \in DOMAIN db) =>
           /\ r.d = StoredFor("p1", r.jobId).dateToRunOn
           /\ r.meta = StoredFor("p1", r.jobId).meta]_vars

\* the options given to init laid over the defaults
OverDefaults(o) ==
  [retryWindowInSeconds |->
     IF o.retryWindowInSeconds # Absent THEN o.retryWindowInSeconds[1]
     ELSE DefaultRetryWindowInSeconds,
   retryCount |-> IF o.retryCount # Absent THEN o.retryCount[1] ELSE DefaultRetryCount,
   useLock |-> IF o.useLock # Absent THEN o.useLock[1] ELSE FALSE]

\* init of p completes with this step
InitCompletes(p) ==
  initTask[p] # Idle /\ initTask'[p] = Idle /\ initialized'[p]

\* C17 (SpecInit): when a call of init completes, each option of the process
\* has the value given in that call, and its default when the call gave none.
C17_OptionsOverDefaults ==
  [][InitCompletes("p1") => options'["p1"] = OverDefaults(initTask["p1"].o)]_vars

\* the retry transition of run r is applied with this step
RetryApplied(p, r) ==
  r \in runs[p] /\ r.pc = "retry" /\ r \notin runs'[p] /\ ev'.a = "retry"

\* C18 (SpecErrors): the retry transition after the k-th failed attempt of a
\* job whose record was created without counters leaves errorCount = k and
\* retriedCount = k - 1 (errorCount counted from 0 and retriedCount from -1
\* when absent), isLocked = false, and errorMessages equal to the earlier
\* sequence with the error of this attempt appended at the end.
C18_KthFailure ==
  [][\A r \in runs["p1"] :
       RetryApplied("p1", r) =>
          LET k == invoked[r.jobId] IN
          /\ db'[r.jobId].errorCount = <<k>>
          /\ db'[r.jobId].retriedCount = <<k - 1>>
          /\ ~db'[r.jobId].isLocked
          /\ db'[r.jobId].errorMessages = Append(db[r.jobId].errorMessages, r.error[1])]_vars

\* C18 as stated: after the k-th failure retriedCount is k as errorCount is
C18_BothCountFromZero ==
  [][\A r \in runs["p1"] :
       RetryApplied("p1", r) =>
          LET k == invoked[r.jobId] IN
          /\ db'[r.jobId].errorCount = <<k>>
          /\ db'[r.jobId].retriedCount = <<k>>
          /\ ~db'[r.jobId].isLocked
          /\ db'[r.jobId].errorMessages = Append(db[r.jobId].errorMessages, r.error[1])]_vars

\* the second failure, with another error than the first, has been recorded
C18_SecondFailure ==
  /\ ev.a = "retry"
  /\ invoked[ev.id] = 2
  /\ db[ev.id].errorCount = <<2>>
  /\ db[ev.id].retriedCount = <<1>>
  /\ db[ev.id].errorMessages = <<"E1", "E2">>

\* C19 (SpecFleet): the retry transition is one store update: it sets
\* isActive = false iff the retriedCount it has just written is at least
\* retryCount and leaves isActive as it was otherwise; in no state that a
\* process can read does a record have counters that are incremented with an
\* isActive that is not settled: the counters move together and a record
\* whose retriedCount has reached retryCount is inactive.
C19_ActivitySettledWithCounters ==
  /\ [][\A p \in Procs : \A r \in runs[p] :
          (RetryApplied(p, r) /\ r.jobId \in DOMAIN db) =>
             db'[r.jobId].isActive =
               IF db'[r.jobId].retriedCount[1] >= options[p].retryCount
               THEN FALSE ELSE db[r.jobId].isActive]_vars
  /\ [](\A id \in DOMAIN db :
          /\ (db[id].retriedCount = Absent) = (db[id].errorCount = Absent)
          /\ db[id].retriedCount # Absent =>
                /\ db[id].errorCount[1] = db[id].retriedCount[1] + 1
                /\ db[id].retriedCount[1] >= MaxRetryCount => ~db[id].isActive)

\* a retry transition has made the record inactive while another process
\* holds a timer for the job and will read the record
C19_AbandonedBeforeReader ==
  /\ ev.a = "retry"
  /\ ev.id \in DOMAIN db
  /\ db[ev.id].retriedCount = <<MaxRetryCount>>
  /\ ~db[ev.id].isActive
  /\ \E p \in Procs \ {ev.p} : TimersFor(p, ev.id) # {}

\* C20 (SpecRestart): with every retry transition the process arms a timer
\* for the job iff the record of the job is active after the transition.
C20_RearmedIffActive ==
  [][\A r \in runs["p1"] :
       RetryApplied("p1", r) =>
          ((\E t \in timers'["p1"] \ timers["p1"] : t.jobId = r.jobId)
             <=> (r.jobId \in DOMAIN db' /\ db'[r.jobId].isActive))]_vars

\* process p is between a claim of the record of id that it has won and the
\* end of that attempt
HoldsClaim(p, id) ==
  \E r \in runs[p] : r.jobId = id /\ r.lock /\ r.pc \in {"callback", "delete", "retry"}

\* C21 (SpecCrash): in every state, also after the process has stopped and
\* started again, a record has isLocked = true only while a live process is
\* between its successful claim of the record and the end of that attempt.
C21_LockedOnlyWhileClaimed ==
  \A id \in DOMAIN db : db[id].isLocked => \E p \in Procs : HoldsClaim(p, id)

\* C22 (SpecUpdate): within one process at most one invocation of a wrapped
\* callback is in flight for a job id at any time.
C22_OneInFlightPerId ==
  \A id \in JobIds : Cardinality(RunsFor("p1", id)) <= 1

\* C23 (Spec): in every state of a process each job id has at most one live
\* timer, and the timer table references that timer under the id.
C23_OneReferencedTimerPerId ==
  \A id \in JobIds :
    /\ Cardinality(TimersFor("p1", id)) <= 1
    /\ \A t \in TimersFor("p1", id) : Lookup(scheduledJobs["p1"], id) = t.h

\* C24 (SpecFleet): with useLock = true a firing whose claim fails does
\* nothing: the user callback is not invoked, the store is left as it was,
\* the retry counters in memory are unchanged, no timer is armed, the
\* invocation ends and its outcome is the refusal, not an error.
C24_FailedClaimIsNoOp ==
  [][\A p \in Procs : \A r \in runs[p] :
       (ClaimApplied(p, r) /\ ~ClaimWon(p, r)) =>
          /\ invoked' = invoked
          /\ db' = db
          /\ retriedCount' = retriedCount
          /\ timers'[p] \subseteq timers[p]
          /\ runs'[p] = runs[p] \ {r}
          /\ ev'.res \in {"absent", "inactive", "date", "locked"}]_vars

\* a claim has been refused while the callback of another process is running
C24_RefusedWhileRunning ==
  /\ ev.a = "claim" /\ ev.res = "locked"
  /\ db[ev.id].isLocked
  /\ \E q \in Procs \ {ev.p} : \E r \in runs[q] : r.jobId = ev.id /\ r.pc = "callback"

\* the user callback of run r has thrown with this step: the catch block
\* clears the table entry of the id before handleRetries
FailureCaught(p, r) ==
  /\ r \in runs[p] /\ r.pc = "callback" /\ r \notin runs'[p]
  /\ \E r2 \in runs'[p] : r2.h = r.h /\ r2.pc = "retry"

\* C25 (SpecUpdate): the clean-up of a firing, after a refused claim or after
\* a failed callback, leaves every timer armed for the id since the firing
\* began as it was: the timers that are pending for the id stay pending.
C25_CleanUpSparesNewerTimer ==
  [][\A p \in Procs : \A r \in runs[p] :
       ((ClaimApplied(p, r) /\ ~ClaimWon(p, r)) \/ FailureCaught(p, r)) =>
          TimersFor(p, r.jobId) \subseteq timers'[p]]_vars

\* process p has one timer or one invocation for the id and nothing else
Single(p, id) == Cardinality(TimersFor(p, id)) + Cardinality(RunsFor(p, id)) = 1

\* C26 (SpecFleet): after a failed attempt of a job the next attempt, in any
\* process, is started by the timer that handleRetries armed for
\* retryWindowInSeconds with the failure's retry transition.  Every other
\* timer of the job is armed for the job's date, which the failed attempt has
\* already reached, and so may fire as soon as the transition is done.
\* Stated for processes that hold a single timer of the job.
C26_NextAttemptAfterWindow ==
  [][\A p \in Procs : \A r \in runs'[p] :
       (Invocation(p, r) /\ r.jobId \in DOMAIN db /\ Single(p, r.jobId)
          /\ db[r.jobId].retriedCount # Absent) => r.src = "retry"]_vars

\* the attempts of id in process p whose callback has been called and whose
\* retry transition has not been applied yet
Unrecorded(p, id) == {r \in RunsFor(p, id) : r.pc \in {"callback", "retry"}}

\* C27 (SpecErrors): while the record of a job exists its errorCount and
\* retriedCount never decrease and errorMessages only grows at its end;
\* errorCount is the length of errorMessages and the number of failed
\* attempts of the job whose retry transition has been applied, one
\* transition for each failed attempt.
C27_CountersRecordFailures ==
  /\ [](\A id \in DOMAIN db :
          /\ IfNull(db[id].errorCount, 0) = Len(db[id].errorMessages)
          /\ IfNull(db[id].errorCount, 0) =
               invoked[id] - Cardinality(Unrecorded("p1", id)))
  /\ [][\A id \in DOMAIN db \cap DOMAIN db' :
          /\ IfNull(db'[id].errorCount, 0) >= IfNull(db[id].errorCount, 0)
          /\ IfNull(db'[id].retriedCount, -1) >= IfNull(db[id].retriedCount, -1)
          /\ Len(db'[id].errorMessages) >= Len(db[id].errorMessages)
          /\ SubSeq(db'[id].errorMessages, 1, Len(db[id].errorMessages))
               = db[id].errorMessages]_vars

\* two attempts have failed with different errors and the job is abandoned
C27_TwoFailuresRecorded ==
  /\ ev.a = "retry" /\ ev.res = "exceeded"
  /\ db[ev.id].errorMessages = <<"E2", "E1">>
  /\ db[ev.id].errorCount = <<2>>
  /\ ~db[ev.id].isActive
  /\ RunsFor("p1", ev.id) = {}

\* the last timeout t of a job expires with this step
LastTimeout(p, t) ==
  t \in timers[p] /\ t \notin timers'[p] /\ t.chain = 0 /\ ev'.a = "fire"

\* C28 (SpecRestart): with useLock = false a firing invokes the user callback
\* at once and leaves the store as it is, and no step sets isLocked of a
\* record to true; with useLock = true a firing first issues the claim and
\* every invocation of the user callback is a claim that has been won on a
\* claimable record; in both modes a failed callback is followed by the same
\* retry transition and the same decision to re-arm.
C28_ClaimOnlyWithLock ==
  /\ [][\A t \in timers["p1"] :
          LastTimeout("p1", t) =>
             IF options["p1"].useLock
             THEN /\ invoked' = invoked
                  /\ \E r \in runs'["p1"] \ runs["p1"] : r.h = t.h /\ r.pc = "claim"
             ELSE /\ invoked'[t.jobId] = invoked[t.jobId] + 1
                  /\ db' = db
                  /\ \E r \in runs'["p1"] : Invocation("p1", r) /\ r.h = t.h]_vars
  /\ [][\A id \in DOMAIN db \cap DOMAIN db' :
          (~db[id].isLocked /\ db'[id].isLocked) => options["p1"].useLock]_vars
  /\ [][\A id \in JobIds :
          (invoked'[id] # invoked[id] /\ options["p1"].useLock) =>
             \E r \in runs["p1"] :
                /\ r.jobId = id /\ ClaimApplied("p1", r) /\ ClaimWon("p1", r)
                /\ Claimable(r) /\ db'[id].isLocked]_vars
  /\ [][\A r \in runs["p1"] :
          RetryApplied("p1", r) =>
             /\ db' = UpdateRetryThresholdInDB(db, r.jobId, r.error[1],
                                               options["p1"].retryCount)
             /\ (\E t \in timers'["p1"] \ timers["p1"] : t.jobId = r.jobId)
                  <=> (IF r.jobId \in DOMAIN retriedCount["p1"]
                       THEN retriedCount["p1"][r.jobId] ELSE 0) + 1
                        <= options["p1"].retryCount]_vars

\* with useLock = true the firing of a retry timer has won its claim
C28_RetryFiringClaimed ==
  /\ ev.a = "claim" /\ ev.res = "claimed"
  /\ options["p1"].useLock
  /\ \E r \in runs["p1"] : r.jobId = ev.id /\ r.src = "retry" /\ r.pc = "callback"

\* C29 (SpecStoreError): once the user callback of a job has resolved, it is
\* not invoked again for the job, also when the deleteOne that follows is
\* answered with an error.
C29_NoInvocationAfterSuccess ==
  [][\A id \in JobIds : succeeded[id] => invoked'[id] = invoked[id]]_vars

\* the store update of the retry transition of run r fails with this step
RetryRejected(p, r) ==
  r \in runs[p] /\ r.pc = "retry" /\ r \notin runs'[p] /\ ev'.a = "retryFailed"

\* C30 (SpecStoreError): when the store update of the retry transition fails,
\* no retry timer is armed, the retry counter in memory is not incremented
\* and the record keeps its counters, isActive and isLocked; nothing of the
\* job is left in the process afterwards.
C30_FailedUpdateAbortsRearm ==
  [][\A r \in runs["p1"] :
       RetryRejected("p1", r) =>
          /\ timers' = timers
          /\ scheduledJobs' = scheduledJobs
          /\ retriedCount' = retriedCount
          /\ db' = db
          /\ RunsFor("p1", r.jobId)' = {}
          /\ TimersFor("p1", r.jobId)' = {}]_vars

\* the update after the first failure of a claimed job has failed: the record
\* has no counters and is still locked
C30_FirstUpdateRejected ==
  /\ ev.a = "retryFailed"
  /\ invoked[ev.id] = 1 /\ ~succeeded[ev.id]
  /\ db[ev.id].errorCount = Absent
  /\ db[ev.id].isLocked /\ db[ev.id].isActive
  /\ ev.id \notin DOMAIN retriedCount["p1"]
  /\ Settled("p1", ev.id)

====
